---- MODULE Spec2Model ----
(***************************************************************************)
(* Model of the retrieval pipeline of multi-agent-hub:                     *)
(*   storage/vector_store_faiss.py   FaissVectorStore  (local flat index)   *)
(*   storage/vector_store_milvus.py  MilvusVectorStore (remote collection)  *)
(*   core/rag_service.py             RagService (ingest, search)            *)
(*   rag/splitter.py                 split_text and its helpers             *)
(*   rag/embeddings.py               Embeddings.encode, _retry_async        *)
(*                                                                         *)
(* Numbers that are floats in the program are fixed-point integers here:    *)
(* a float x is held as x * Scale, an inner product as ip * Scale * Scale.  *)
(* The vectors given to the stores in Spec have integer norms, so L2        *)
(* normalisation is exact in this representation.                           *)
(*                                                                         *)
(* Spec      : the vector stores and semantic_search.  FaissVectorStore     *)
(*             methods are synchronous and contain no await, so each is one *)
(*             atomic action.  MilvusVectorStore.upsert_document makes      *)
(*             three remote calls (delete, insert, flush) on a collection   *)
(*             that lives in a remote service; each remote call is one step *)
(*             of the calling client.  The clients are processes of the     *)
(*             application, each with its own handle on the one collection. *)
(* SpecSplit : split_text / _pack_units_to_chunks applied to bounded inputs. *)
(* SpecEmbed : _retry_async / Embeddings.encode applied to bounded inputs,   *)
(*             the remote provider being an oracle of failures.             *)
(* SpecScore : the score conversion of semantic_search applied to bounded  *)
(*             lists of raw hits.                                           *)
(* SpecService : _ingest_raw_text, delete_document and semantic_search of   *)
(*             one process of the application, on either store.             *)
(***************************************************************************)
EXTENDS Integers, Sequences, FiniteSets, TLC

VARIABLES
    backend,        \* vector_store_manager._backend_type: "faiss" | "milvus"
    embeddings,     \* FaissVectorStore._embeddings (rows; <<>> is None)
    metas,          \* FaissVectorStore._metas
    index,          \* FaissVectorStore._index: the vectors held by the IndexFlatIP (<<>> is None)
    col,            \* the Milvus collection: rows in insertion order
    mcall,          \* per Milvus client: the upsert_document call in progress
    last,           \* the most recent store operation and what it returned (history)
    lastDone,       \* per doc_id: the chunks of the upsert_document call whose index mutation was
                    \* completed last, <<>> once a delete_document of it has been carried out (history)
    splitIn,        \* input of the splitter run
    splitOut,       \* result of the splitter run
    encIn,          \* input of the _retry_async / Embeddings.encode run
    encOut,         \* result of the _retry_async / Embeddings.encode run
    ing,            \* the RagService._ingest_raw_text call in progress
    disk,           \* embeddings.npy and metas.json of the Faiss directory (<<>> is no file)
    scoreIn,        \* input of the score conversion run: the hits of the store
    scoreOut        \* result of the score conversion run

storeVars == <<backend, embeddings, metas, index, col, mcall, last, lastDone>>
splitVars == <<splitIn, splitOut>>
embedVars == <<encIn, encOut>>
scoreVars == <<scoreIn, scoreOut>>
vars == <<backend, embeddings, metas, index, col, mcall, last, lastDone, splitIn, splitOut,
          encIn, encOut, ing, disk, scoreIn, scoreOut>>

(***************************************************************************)
(* Generic helpers                                                         *)
(***************************************************************************)
Range(s) == {s[i] : i \in DOMAIN s}

Max2(a, b) == IF a >= b THEN a ELSE b

Min2(a, b) == IF a <= b THEN a ELSE b

RECURSIVE SelectSeq2(_, _)
\* the subsequence of s at the positions of keep, in order
SelectSeq2(s, keep) ==
    IF s = <<>> THEN <<>>
    ELSE LET n == Len(s)
             rest == SelectSeq2(SubSeq(s, 1, n - 1), keep)
         IN IF n \in keep THEN Append(rest, s[n]) ELSE rest

RECURSIVE SumSeq(_)
SumSeq(s) == IF s = <<>> THEN 0 ELSE s[1] + SumSeq(Tail(s))

(***************************************************************************)
(* Inputs                                                                  *)
(***************************************************************************)
Scale == 10

Dim == 2

Docs == {"d1", "d2"}

Users == {1, 2}

NoUser == 0

Scopes == {"global", "private"}

Clients == {1, 2}

\* embedding vectors as the provider returns them (arbitrary norm)
Vecs == {<<1, 0>>, <<0, 2>>, <<3, 4>>}

\* a vector of another dimension (the placeholder of Embeddings.encode has 3)
BadVec == <<0, 0, 0>>

GenA == [chunks |-> <<"A0", "A1">>, embeddings |-> << <<3, 4>>, <<1, 0>> >>]

GenB == [chunks |-> <<"B0">>, embeddings |-> << <<0, 2>> >>]

GenDim == [chunks |-> <<"C0">>, embeddings |-> << BadVec >>]

GenLen == [chunks |-> <<"C0", "C1">>, embeddings |-> << <<1, 0>> >>]

GenEmpty == [chunks |-> <<>>, embeddings |-> <<>>]

GenRagged == [chunks |-> <<"C0", "C1">>, embeddings |-> << <<1, 0>>, BadVec >>]

Gens == {GenA, GenB, GenDim, GenLen, GenEmpty, GenRagged}

\* the remote collection is exercised with the inputs whose outcome the client code decides
MilvusGens == {GenA, GenB, GenDim, GenLen}

\* the doc_id the two clients of the remote collection write to
MilvusDocs == {"d1"}

\* (user_id, scope) of the documents sent to the remote collection
MilvusOwners == {<<1, "private">>, <<2, "global">>}

\* every doc_id a store operation is called with
AllDocs == Docs \cup MilvusDocs \cup {""}

QueryVecs == Vecs \cup {BadVec}

TopKs == {-1, 0, 1, 2}

DefaultTopK == 5

(***************************************************************************)
(* Vector arithmetic (numpy / faiss)                                       *)
(***************************************************************************)
\* np.asarray(v, dtype=np.float32)
ToFloat(v) == [i \in DOMAIN v |-> v[i] * Scale]

SqNorm(v) == SumSeq([i \in DOMAIN v |-> v[i] * v[i]])

ISqrt(n) == CHOOSE r \in 0..n : r * r <= n /\ (r + 1) * (r + 1) > n

\* faiss.normalize_L2 on one row: a zero row is left as it is
normalize_L2(v) ==
    LET nrm == ISqrt(SqNorm(v))
    IN IF nrm = 0 THEN v ELSE [i \in DOMAIN v |-> (v[i] * Scale) \div nrm]

\* inner product of two float vectors of equal length
InnerProduct(a, b) == SumSeq([i \in DOMAIN a |-> a[i] * b[i]])

RECURSIVE SelectTop(_, _, _)
\* positions of the k largest scores, best first, earlier position first on a tie
SelectTop(scores, remaining, k) ==
    IF k <= 0 \/ remaining = {} THEN <<>>
    ELSE LET best == CHOOSE i \in remaining :
                        \A j \in remaining :
                            scores[i] > scores[j] \/ (scores[i] = scores[j] /\ i <= j)
         IN <<best>> \o SelectTop(scores, remaining \ {best}, k - 1)

(***************************************************************************)
(* FaissVectorStore                                                        *)
(***************************************************************************)
\* _rebuild_index: normalises self._embeddings in place and adds them to a new IndexFlatIP
RebuildEmbeddings(emb) == [i \in DOMAIN emb |-> normalize_L2(emb[i])]

_rebuild_index(emb) == [embeddings |-> RebuildEmbeddings(emb), index |-> RebuildEmbeddings(emb)]

\* a removal that also drops the first row of the store
KeepButFirst(ms, doc_id) == {i \in DOMAIN ms : ms[i].doc_id # doc_id /\ i # 1}

\* _remove_doc_from_memory: the rows and metas that are kept
KeepIndices(ms, doc_id) == {i \in DOMAIN ms : ms[i].doc_id # doc_id}

\* a removal that keeps the leading rows of the matrix, whatever document they belong to
RemoveTrailingRows(emb, ms, doc_id) ==
    [embeddings |-> SubSeq(emb, 1, Cardinality(KeepIndices(ms, doc_id))),
     metas |-> SelectSeq2(ms, KeepIndices(ms, doc_id))]

\* an upsert that keeps the former rows of the document
KeepFormerRows(emb, ms, doc_id) == [embeddings |-> emb, metas |-> ms]

_remove_doc_from_memory(emb, ms, doc_id) ==
    IF emb = <<>> \/ ms = <<>> THEN [embeddings |-> emb, metas |-> ms]
    ELSE IF Cardinality(KeepIndices(ms, doc_id)) = Len(ms) THEN [embeddings |-> emb, metas |-> ms]
    ELSE [embeddings |-> SelectSeq2(emb, KeepIndices(ms, doc_id)),
          metas |-> SelectSeq2(ms, KeepIndices(ms, doc_id))]

NewMetas(doc_id, user_id, scope, chunks) ==
    [i \in DOMAIN chunks |->
        [doc_id |-> doc_id, chunk_index |-> i - 1, user_id |-> user_id,
         content |-> chunks[i], scope |-> scope]]

\* np.asarray(embeddings, dtype=np.float32) followed by the check of shape[1]:
\* "ok", or the exception raised
AsArrayOutcome(embs) ==
    IF embs = <<>> THEN "IndexError"
    ELSE IF \E i, j \in DOMAIN embs : Len(embs[i]) # Len(embs[j]) THEN "ValueError"
    ELSE IF Len(embs[1]) # Dim THEN "DimMismatch"
    ELSE "ok"

\* the outcome of FaissVectorStore.upsert_document
FaissUpsertOutcome(gen) ==
    IF Len(gen.chunks) # Len(gen.embeddings) THEN "LengthMismatch"
    ELSE AsArrayOutcome(gen.embeddings)

\* the fragments of doc_id held in the metadata, in order
FaissDocFrags(ms, doc_id) == SelectSeq2([i \in DOMAIN ms |-> ms[i].content],
                                        {i \in DOMAIN ms : ms[i].doc_id = doc_id})

\* FaissVectorStore.search: "raised" or the VectorSearchResult list
FaissSearchResults(emb, ms, idx, q, top_k) ==
    LET qf == ToFloat(q)
        k == Max2(1, top_k)
        scores == [i \in DOMAIN idx |-> InnerProduct(qf, idx[i])]
        found == SelectTop(scores, DOMAIN idx, k)
        hits == SelectSeq2(found, {p \in DOMAIN found : found[p] <= Len(ms)})
    IN [p \in DOMAIN hits |->
            [doc_id |-> ms[hits[p]].doc_id, chunk_index |-> ms[hits[p]].chunk_index,
             user_id |-> ms[hits[p]].user_id, content |-> ms[hits[p]].content,
             score |-> scores[hits[p]], scope |-> ms[hits[p]].scope]]


(***************************************************************************)
(* MilvusVectorStore                                                       *)
(***************************************************************************)
\* the entities built by upsert_document, one row per chunk
MilvusRows(doc_id, user_id, scope, gen) ==
    [i \in DOMAIN gen.chunks |->
        [doc_id |-> doc_id, chunk_index |-> i - 1, user_id |-> user_id,
         content |-> gen.chunks[i], scope |-> scope, embedding |-> ToFloat(gen.embeddings[i])]]

\* Collection.delete('doc_id == "<doc_id>"')
MilvusDeleteRows(rows, doc_id) == SelectSeq2(rows, {i \in DOMAIN rows : rows[i].doc_id # doc_id})

\* Collection.insert checks every vector against the dimension of the schema
MilvusInsertAccepted(gen) == \A i \in DOMAIN gen.embeddings : Len(gen.embeddings[i]) = Dim

MilvusDocFrags(rows, doc_id) == SelectSeq2([i \in DOMAIN rows |-> rows[i].content],
                                           {i \in DOMAIN rows : rows[i].doc_id = doc_id})

\* MilvusVectorStore.search with metric IP on the stored (raw) vectors
MilvusSearchResults(rows, q, top_k) ==
    LET qf == ToFloat(q)
        k == Max2(1, top_k)
        scores == [i \in DOMAIN rows |-> InnerProduct(qf, rows[i].embedding)]
        hits == SelectTop(scores, DOMAIN rows, k)
    IN [p \in DOMAIN hits |->
            [doc_id |-> rows[hits[p]].doc_id, chunk_index |-> rows[hits[p]].chunk_index,
             user_id |-> rows[hits[p]].user_id, content |-> rows[hits[p]].content,
             score |-> scores[hits[p]], scope |-> rows[hits[p]].scope]]

(***************************************************************************)
(* RagService.semantic_search                                              *)
(***************************************************************************)
\* Python round(n / d): round half to even
RoundDiv(n, d) ==
    LET q == n \div d
        r == n % d
    IN IF 2 * r < d THEN q
       ELSE IF 2 * r > d THEN q + 1
       ELSE IF q % 2 = 0 THEN q ELSE q + 1

\* the conversion without the cut to 0..100
Score100Unclamped(raw) ==
    IF raw <= Scale * Scale
    THEN RoundDiv(raw * 100, Scale * Scale)
    ELSE RoundDiv(raw, Scale * Scale)

\* the 0..100 score of a raw score (raw is the float score times Scale * Scale)
Score100(raw) ==
    IF raw <= Scale * Scale
    THEN Max2(0, Min2(100, RoundDiv(raw * 100, Scale * Scale)))
    ELSE Max2(0, Min2(100, RoundDiv(raw, Scale * Scale)))

\* lines 187-194: the score of a result; a result without the field score
\* is one whose score is None
NormalizedScore(r) == IF "score" \notin DOMAIN r THEN 0 ELSE Score100(r.score)

\* the dicts semantic_search returns for the results of the store
SearchOut(raw) ==
    [p \in DOMAIN raw |->
        [doc_id |-> raw[p].doc_id, chunk_index |-> raw[p].chunk_index,
         content |-> raw[p].content, score |-> NormalizedScore(raw[p])]]

\* k = int(top_k or default_top_k or 5)
EffectiveTopK(top_k) == IF top_k # 0 THEN top_k ELSE DefaultTopK

(***************************************************************************)
(* rag/splitter.py.  A text is a sequence of one-character strings.        *)
(* The model alphabet is ASCII: letters, "#", "1", ".", "!", ",", " " and  *)
(* the newline; the character classes below list the ASCII members of the  *)
(* classes of the source's regular expressions.                            *)
(***************************************************************************)
NL == "\n"

\* str.strip() / \s of the regular expressions
WS == {" ", NL, "\t"}

\* [。！？!?；;…] of _SENT_PAT, first alternative
SentTerm1 == {"!", "?", ";"}

\* [.!?;] of _SENT_PAT, second alternative
SentTerm2 == {".", "!", "?", ";"}

\* [，,、;；] of the fallback split of _split_sentences
CommaChars == {",", ";"}

\* [0-9一二三四五六七八九十] and [.)、] of _HEADING_PAT
HeadingDigits == {"0", "1", "2", "3", "4", "5", "6", "7", "8", "9"}

HeadingDots == {".", ")"}

Rep(c, n) == [i \in 1..n |-> c]

RECURSIVE lstrip(_)
lstrip(s) == IF s # <<>> /\ s[1] \in WS THEN lstrip(Tail(s)) ELSE s

RECURSIVE rstrip(_)
rstrip(s) == IF s # <<>> /\ s[Len(s)] \in WS THEN rstrip(SubSeq(s, 1, Len(s) - 1)) ELSE s

strip(s) == rstrip(lstrip(s))

RECURSIVE Join(_, _)
\* sep.join(parts)
Join(parts, sep) ==
    IF parts = <<>> THEN <<>>
    ELSE IF Len(parts) = 1 THEN parts[1]
    ELSE parts[1] \o sep \o Join(Tail(parts), sep)

RECURSIVE RunEnd(_, _, _)
\* the first position from i on that is past the end of s or holds a character outside class
RunEnd(s, i, class) ==
    IF i <= Len(s) /\ s[i] \in class THEN RunEnd(s, i + 1, class) ELSE i

RECURSIVE RunEndNotIn(_, _, _)
\* the first position from i on that is past the end of s or holds a character of class
RunEndNotIn(s, i, class) ==
    IF i <= Len(s) /\ s[i] \notin class THEN RunEndNotIn(s, i + 1, class) ELSE i

RECURSIVE SplitOn(_, _)
\* s.split(c) for a one-character separator
SplitOn(s, c) ==
    LET e == RunEndNotIn(s, 1, {c})
    IN IF e > Len(s) THEN <<s>>
       ELSE <<SubSeq(s, 1, e - 1)>> \o SplitOn(SubSeq(s, e + 1, Len(s)), c)

\* keep the stripped, non-empty members
StripNonEmpty(parts) == SelectSeq([i \in DOMAIN parts |-> strip(parts[i])], LAMBDA x : x # <<>>)

\* _count_tokens, lines 10-16, in the branch taken when tiktoken is not importable
_count_tokens(text) == Max2(1, Len(text) \div 4)

\* "$" without re.M: the end of the string, or just before a final newline
AtDollar(s, j) == j = Len(s) + 1 \/ (j = Len(s) /\ s[j] = NL)

\* one alternative of _SENT_PAT tried at position i: the position after the match, 0 if none.
\* The run is greedy; a shorter run is followed by a character of the run, which is
\* neither a terminator nor the end, so only the longest run can match.
SentAltEnd(s, i, excl, term) ==
    LET e == RunEndNotIn(s, i, excl)
    IN IF e = i THEN 0
       ELSE IF e <= Len(s) /\ s[e] \in term THEN RunEnd(s, e, term)
       ELSE IF AtDollar(s, e) THEN e
       ELSE 0

\* _SENT_PAT tried at position i
SentMatchEnd(s, i) ==
    LET a1 == SentAltEnd(s, i, SentTerm1 \cup {NL}, SentTerm1)
    IN IF a1 # 0 THEN a1 ELSE SentAltEnd(s, i, SentTerm2 \cup {NL}, SentTerm2)

RECURSIVE SentFindAll(_, _)
\* _SENT_PAT.findall(s), scanning from position i
SentFindAll(s, i) ==
    IF i > Len(s) THEN <<>>
    ELSE LET e == SentMatchEnd(s, i)
         IN IF e = 0 THEN SentFindAll(s, i + 1)
            ELSE <<SubSeq(s, i, e - 1)>> \o SentFindAll(s, e)

RECURSIVE CommaSplit(_)
\* re.split(r"[,;]\s*", s)
CommaSplit(s) ==
    LET e == RunEndNotIn(s, 1, CommaChars)
    IN IF e > Len(s) THEN <<s>>
       ELSE <<SubSeq(s, 1, e - 1)>> \o CommaSplit(SubSeq(s, RunEnd(s, e + 1, WS), Len(s)))

\* _split_sentences, lines 69-75
_split_sentences(paragraph) ==
    LET sentences == StripNonEmpty(SentFindAll(paragraph, 1))
        fallback == StripNonEmpty(CommaSplit(paragraph))
    IN IF sentences # <<>> THEN sentences
       ELSE IF fallback # <<>> THEN fallback
       ELSE <<strip(paragraph)>>

\* the end of the line that holds position p (the position of its newline, or Len + 1)
LineEnd(s, p) == RunEndNotIn(s, p, {NL})

\* "\s+.+$" of _HEADING_PAT tried at position i: the position after the match, 0 if none.
\* \s+ is greedy and gives characters back until a character other than a newline follows.
HeadingRestEnd(s, i) ==
    LET w == RunEnd(s, i, WS) - i
        ok == {k \in 1..w : i + k <= Len(s) /\ s[i + k] # NL}
    IN IF ok = {} THEN 0
       ELSE LineEnd(s, i + (CHOOSE k \in ok : \A j \in ok : j <= k))

\* _HEADING_PAT tried at the line start i: the position after the match, 0 if none
HeadingMatchEnd(s, i) ==
    LET h == RunEnd(s, i, {"#"}) - i
        d == RunEnd(s, i, HeadingDigits) - i
    IN IF h >= 1 THEN (IF h <= 6 THEN HeadingRestEnd(s, i + h) ELSE 0)
       ELSE IF d >= 1 /\ i + d <= Len(s) /\ s[i + d] \in HeadingDots
            THEN HeadingRestEnd(s, i + d + 1)
       ELSE 0

RECURSIVE HeadingFindIter(_, _)
\* _HEADING_PAT.finditer(s) from position i: the <<start, end>> of every match
HeadingFindIter(s, i) ==
    IF i > Len(s) THEN <<>>
    ELSE LET e == IF i = 1 \/ s[i - 1] = NL THEN HeadingMatchEnd(s, i) ELSE 0
         IN IF e = 0 THEN HeadingFindIter(s, i + 1)
            ELSE << <<i, e>> >> \o HeadingFindIter(s, e)

\* _split_by_headings, lines 38-59: the sections as <<title, body>>
_split_by_headings(text) ==
    LET matches == HeadingFindIter(text, 1)
        intro == IF matches # <<>> /\ matches[1][1] > 1
                 THEN strip(SubSeq(text, 1, matches[1][1] - 1)) ELSE <<>>
        body(i) == strip(SubSeq(text, matches[i][2],
                                IF i + 1 <= Len(matches) THEN matches[i + 1][1] - 1 ELSE Len(text)))
        titled == [i \in DOMAIN matches |->
                      <<strip(SubSeq(text, matches[i][1], matches[i][2] - 1)), body(i)>>]
        parts == (IF intro # <<>> THEN << <<<<>>, intro>> >> ELSE <<>>)
                 \o SelectSeq(titled, LAMBDA sec : sec[2] # <<>>)
    IN IF strip(text) = <<>> THEN <<>>
       ELSE IF matches = <<>> THEN << <<<<>>, strip(text)>> >>
       ELSE IF parts # <<>> THEN parts
       ELSE << <<<<>>, strip(text)>> >>

RECURSIVE SquashNewlines(_)
\* re.sub(r"\n{3,}", "\n\n", s)
SquashNewlines(s) ==
    IF s = <<>> THEN <<>>
    ELSE LET e == RunEnd(s, 1, {NL})
         IN IF e = 1 THEN <<s[1]>> \o SquashNewlines(Tail(s))
            ELSE (IF e - 1 >= 3 THEN <<NL, NL>> ELSE SubSeq(s, 1, e - 1))
                 \o SquashNewlines(SubSeq(s, e, Len(s)))

\* "\n\s*\n" tried at position i: the position after the match, 0 if none
\* (\s* is greedy and gives characters back until a newline ends the match)
ParaSepEnd(s, i) ==
    LET e == RunEnd(s, i, WS)
        nls == {j \in (i + 1)..(e - 1) : s[j] = NL}
    IN IF i > Len(s) \/ s[i] # NL \/ nls = {} THEN 0
       ELSE (CHOOSE j \in nls : \A k \in nls : k <= j) + 1

RECURSIVE ParaSplit(_, _, _)
\* re.split(r"\n\s*\n", s): scanning at position i, the current piece began at position from
ParaSplit(s, from, i) ==
    IF i > Len(s) THEN <<SubSeq(s, from, Len(s))>>
    ELSE LET e == ParaSepEnd(s, i)
         IN IF e = 0 THEN ParaSplit(s, from, i + 1)
            ELSE <<SubSeq(s, from, i - 1)>> \o ParaSplit(s, e, e)

\* _split_paragraphs, lines 62-66
_split_paragraphs(section_text) ==
    StripNonEmpty(ParaSplit(SquashNewlines(strip(section_text)), 1, 1))

\* the Python recursion limit, in frames of _pack_units_to_chunks
RecursionLimit == 4

\* the last n members of seq (seq[-n:])
LastN(seq, n) == SubSeq(seq, Max2(1, Len(seq) - n + 1), Len(seq))

\* flush(), lines 88-93
PackFlush(st) ==
    IF st.buf # <<>>
    THEN [st EXCEPT !.chunks = Append(@, strip(Join(st.buf, <<NL>>))), !.buf = <<>>, !.buf_tok = 0]
    ELSE st

RECURSIVE PackLoop(_, _, _, _, _, _)
RECURSIVE _pack_units_to_chunks(_, _, _, _, _)

\* one iteration of the loop over units, lines 95-118
PackUnit(st, u, target_tokens, max_tokens, sentence_overlap, depth) ==
    LET t == _count_tokens(u)
        sub == _pack_units_to_chunks(_split_sentences(u), target_tokens, max_tokens,
                                     sentence_overlap, depth + 1)
        flushed == PackFlush(st)
        prev == SplitOn(flushed.chunks[Len(flushed.chunks)], NL)
        tail == SelectSeq(LastN(prev, sentence_overlap), LAMBDA x : x # <<>>)
        carried == IF flushed.chunks # <<>> /\ sentence_overlap > 0
                   THEN [flushed EXCEPT !.buf = @ \o tail,
                                        !.buf_tok = SumSeq([i \in DOMAIN tail |-> _count_tokens(tail[i])])]
                   ELSE flushed
        closed == IF st.buf # <<>>
                  THEN [carried EXCEPT !.closes = Append(@, [prev |-> Len(flushed.chunks), unit |-> u])]
                  ELSE carried
    IN IF t > max_tokens
       THEN (IF sub.err THEN [st EXCEPT !.err = TRUE]
             ELSE [st EXCEPT !.chunks = @ \o sub.chunks])
       ELSE IF st.buf_tok + t <= target_tokens
       THEN [st EXCEPT !.buf = Append(@, u), !.buf_tok = @ + t]
       ELSE IF t > target_tokens /\ t <= max_tokens
       THEN [closed EXCEPT !.chunks = Append(@, u), !.buf = <<>>, !.buf_tok = 0]
       ELSE [closed EXCEPT !.buf = <<u>>, !.buf_tok = t]

PackLoop(st, units, target_tokens, max_tokens, sentence_overlap, depth) ==
    IF units = <<>> \/ st.err THEN st
    ELSE PackLoop(PackUnit(st, units[1], target_tokens, max_tokens, sentence_overlap, depth),
                  Tail(units), target_tokens, max_tokens, sentence_overlap, depth)

\* _pack_units_to_chunks, lines 78-120, called at recursion depth `depth`:
\* err is TRUE when the call ends in RecursionError; closes records, for the
\* report of the overlap, each fragment closed on overflow and the unit that closed it
_pack_units_to_chunks(units, target_tokens, max_tokens, sentence_overlap, depth) ==
    IF depth > RecursionLimit THEN [err |-> TRUE, chunks |-> <<>>, closes |-> <<>>]
    ELSE LET st == PackFlush(PackLoop([err |-> FALSE, chunks |-> <<>>, buf |-> <<>>, buf_tok |-> 0,
                                       closes |-> <<>>],
                                      units, target_tokens, max_tokens, sentence_overlap, depth))
         IN IF st.err THEN [err |-> TRUE, chunks |-> <<>>, closes |-> <<>>]
            ELSE [err |-> FALSE, chunks |-> SelectSeq(st.chunks, LAMBDA c : strip(c) # <<>>),
                  closes |-> st.closes]

\* split_text, lines 141-149: a paragraph within max_tokens is one unit, a longer
\* one is replaced by the fragments its sentences pack into
ParagraphUnits(p, packed, rest, max_tokens) ==
    IF _count_tokens(p) <= max_tokens
    THEN [err |-> rest.err, units |-> <<p>> \o rest.units]
    ELSE IF packed.err THEN [err |-> TRUE, units |-> <<>>]
    ELSE [err |-> rest.err, units |-> packed.chunks \o rest.units]

RECURSIVE SectionUnits(_, _, _, _)
\* split_text, lines 139-149: the units of the paragraphs of one section
SectionUnits(paras, target_tokens, max_tokens, sentence_overlap) ==
    IF paras = <<>> THEN [err |-> FALSE, units |-> <<>>]
    ELSE ParagraphUnits(paras[1],
                        _pack_units_to_chunks(_split_sentences(paras[1]), target_tokens,
                                              max_tokens, sentence_overlap, 1),
                        SectionUnits(Tail(paras), target_tokens, max_tokens, sentence_overlap),
                        max_tokens)

\* split_text, lines 152-159: the title of the section is put before its first fragment
PrefixTitle(title, err, packed) ==
    IF err \/ packed.err THEN [err |-> TRUE, chunks |-> <<>>]
    ELSE [err |-> FALSE,
          chunks |-> [i \in DOMAIN packed.chunks |->
                         IF title # <<>> /\ i = 1 THEN title \o <<NL, NL>> \o packed.chunks[i]
                         ELSE packed.chunks[i]]]

\* split_text, line 150: the units of one section are packed
PackSection(title, us, target_tokens, max_tokens, sentence_overlap) ==
    PrefixTitle(title, us.err,
                _pack_units_to_chunks(us.units, target_tokens, max_tokens, sentence_overlap, 1))

\* split_text, lines 137-159: the fragments of one section
SectionChunks(title, body, target_tokens, max_tokens, sentence_overlap) ==
    PackSection(title,
                SectionUnits(_split_paragraphs(body), target_tokens, max_tokens, sentence_overlap),
                target_tokens, max_tokens, sentence_overlap)

\* split_text, lines 157 and 159: out.extend over the sections
ExtendChunks(first, rest) ==
    IF first.err \/ rest.err THEN [err |-> TRUE, chunks |-> <<>>]
    ELSE [err |-> FALSE, chunks |-> first.chunks \o rest.chunks]

RECURSIVE SectionsChunks(_, _, _, _)
\* split_text, lines 137-159: the loop over the sections
SectionsChunks(sections, target_tokens, max_tokens, sentence_overlap) ==
    IF sections = <<>> THEN [err |-> FALSE, chunks |-> <<>>]
    ELSE ExtendChunks(SectionChunks(sections[1][1], sections[1][2], target_tokens, max_tokens,
                                    sentence_overlap),
                      SectionsChunks(Tail(sections), target_tokens, max_tokens, sentence_overlap))

\* split_text, line 160: empty fragments are dropped
NonEmptyChunks(res) ==
    IF res.err THEN [err |-> TRUE, chunks |-> <<>>]
    ELSE [err |-> FALSE, chunks |-> SelectSeq(res.chunks, LAMBDA c : strip(c) # <<>>)]

\* split_text, lines 123-160
split_text(content, target_tokens, max_tokens, sentence_overlap) ==
    IF strip(content) = <<>> THEN [err |-> FALSE, chunks |-> <<>>]
    ELSE NonEmptyChunks(SectionsChunks(_split_by_headings(strip(content)), target_tokens,
                                       max_tokens, sentence_overlap))

(***************************************************************************)
(* rag/embeddings.py: batching and retry of the remote embedding calls.    *)
(* Delays are held in tenths of a second.  The remote provider is an       *)
(* oracle: for every batch it says how many attempts fail before one       *)
(* succeeds; a successful call returns one vector per text, in order.      *)
(***************************************************************************)
\* _retry_async default and the value every provider passes, lines 23, 96, 120, 144
Tries == 3

\* _retry_async default base_delay 0.8, line 24
BaseDelay == 8

\* _retry_async default max_delay 4.0, line 25
MaxDelay == 40

\* Embeddings.__init__, line 44: the batch size when none is configured
DefaultBatchSize == 64

\* the placeholder row of encode, line 66
Placeholder == <<0, 0, 0>>

NoExc == [batch |-> 0, attempt |-> 0]

\* `raise last` with last = None
TypeErrorExc == [batch |-> -1, attempt |-> 0]

\* the vector the remote provider computes for a text
ProviderEmbedding(t) == <<Len(t), 1>>

\* batches that overlap by one element
ChunksOverlapping(lst, size) ==
    [b \in 1..((Len(lst) + size - 1) \div size) |->
        SubSeq(lst, (b - 1) * size + 1, Min2(b * size + 1, Len(lst)))]

\* _chunks, lines 15-17
_chunks(lst, size) ==
    [b \in 1..((Len(lst) + size - 1) \div size) |->
        SubSeq(lst, (b - 1) * size + 1, Min2(b * size, Len(lst)))]

\* a backoff without the cap
BackoffUncapped(attempt, base_delay, max_delay) == base_delay * (2 ^ (attempt - 1))

\* the sleep after a failed attempt, line 35
BackoffDelay(attempt, base_delay, max_delay) ==
    Min2(max_delay, base_delay * (2 ^ (attempt - 1)))

RECURSIVE RetryLoop(_, _, _, _, _, _)
\* the loop of _retry_async, lines 28-37, from attempt on
RetryLoop(outcomes, attempt, tries, base_delay, max_delay, sleeps) ==
    IF attempt > tries
    THEN [raised |-> TRUE, value |-> <<>>, exc |-> TypeErrorExc, attempts |-> attempt - 1,
          sleeps |-> sleeps]
    ELSE IF outcomes[attempt].ok
    THEN [raised |-> FALSE, value |-> outcomes[attempt].value, exc |-> NoExc,
          attempts |-> attempt, sleeps |-> sleeps]
    ELSE IF attempt >= tries
    THEN [raised |-> TRUE, value |-> <<>>, exc |-> outcomes[attempt].exc, attempts |-> attempt,
          sleeps |-> sleeps]
    ELSE RetryLoop(outcomes, attempt + 1, tries, base_delay, max_delay,
                   Append(sleeps, BackoffDelay(attempt, base_delay, max_delay)))

\* _retry_async, lines 20-37: outcomes[a] is what the a-th call of fn does
_retry_async(outcomes, tries, base_delay, max_delay) ==
    RetryLoop(outcomes, 1, tries, base_delay, max_delay, <<>>)

\* what the calls of `run` for one batch do: the first nfail attempts raise
ProviderOutcomes(b, batch, nfail) ==
    [a \in 1..Tries |->
        IF a <= nfail
        THEN [ok |-> FALSE, value |-> <<>>, exc |-> [batch |-> b, attempt |-> a]]
        ELSE [ok |-> TRUE, value |-> [i \in DOMAIN batch |-> ProviderEmbedding(batch[i])],
              exc |-> NoExc]]

\* the remote calls one batch has caused
BatchCalls(batch, r) ==
    [a \in 1..r.attempts |-> [texts |-> batch, ok |-> (a = r.attempts /\ ~r.raised)]]

RECURSIVE EncodeBatches(_, _, _, _, _)
\* the loop over the batches, lines 90-98
EncodeBatches(batches, b, oracle, output, calls) ==
    IF b > Len(batches)
    THEN [raised |-> FALSE, exc |-> NoExc, vectors |-> output, calls |-> calls]
    ELSE LET r == _retry_async(ProviderOutcomes(b, batches[b], oracle[b]), Tries, BaseDelay, MaxDelay)
         IN IF r.raised
            THEN [raised |-> TRUE, exc |-> r.exc, vectors |-> <<>>,
                  calls |-> calls \o BatchCalls(batches[b], r)]
            ELSE EncodeBatches(batches, b + 1, oracle, output \o r.value,
                               calls \o BatchCalls(batches[b], r))

\* Embeddings._encode_openai, lines 82-98 (_encode_qwen and _encode_deepseek batch alike)
_encode_openai(texts, batch_size, oracle) ==
    EncodeBatches(_chunks(texts, Max2(1, batch_size)), 1, oracle, <<>>, <<>>)

\* Embeddings.encode, lines 60-80; batch_size is self.batch_size
encode(texts, batch_size, oracle) ==
    IF texts = <<>>
    THEN [raised |-> FALSE, exc |-> NoExc, vectors |-> <<>>, calls |-> <<>>]
    ELSE IF \A i \in DOMAIN texts : texts[i] = <<>>
    THEN [raised |-> FALSE, exc |-> NoExc, vectors |-> [i \in DOMAIN texts |-> Placeholder],
          calls |-> <<>>]
    ELSE _encode_openai(texts, batch_size, oracle)

\* Embeddings.__init__, line 44
ConfiguredBatchSize(cfg) == IF cfg # 0 THEN cfg ELSE DefaultBatchSize

(***************************************************************************)
(* State machine of the stores                                             *)
(***************************************************************************)
\* no splitter run
NoInput == [op |-> "none", text |-> <<>>, units |-> <<>>,
            params |-> [target_tokens |-> 0, max_tokens |-> 0, sentence_overlap |-> 0]]

NotRun == [done |-> FALSE, err |-> FALSE, chunks |-> <<>>, closes |-> <<>>]

\* no _retry_async / encode run
NoEncIn == [op |-> "none", outcomes |-> <<>>, tries |-> 0, base_delay |-> 0, max_delay |-> 0,
            texts |-> <<>>, batch_size |-> 0, oracle |-> <<>>]

NoEncOut == [done |-> FALSE, raised |-> FALSE, value |-> <<>>, exc |-> NoExc, attempts |-> 0,
             sleeps |-> <<>>, calls |-> <<>>]

\* encode has not been called
NotEncoded == [raised |-> FALSE, exc |-> NoExc, vectors |-> <<>>, calls |-> <<>>]

\* no _ingest_raw_text call in progress
NotSplit == [err |-> FALSE, chunks |-> <<>>]

IdleIngest == [pc |-> "idle", user_id |-> NoUser, scope |-> "", title_ok |-> TRUE, text |-> <<>>,
               split |-> NotSplit, enc |-> NotEncoded]

\* the Faiss directory holds no file
NoFiles == [embeddings |-> <<>>, metas |-> <<>>]

IdleCall == [pc |-> "idle", doc |-> "", user_id |-> NoUser, scope |-> "", gen |-> GenEmpty]

\* no score conversion run
NoHits == <<>>

NotScored == [done |-> FALSE, hits |-> <<>>]

NoOp == [kind |-> "none", doc |-> "", outcome |-> "ok", requester |-> NoUser, raw |-> <<>>, out |-> <<>>]

OpRecord(kind, doc, outcome) ==
    [kind |-> kind, doc |-> doc, outcome |-> outcome, requester |-> NoUser, raw |-> <<>>, out |-> <<>>]

SearchRecord(requester, outcome, raw) ==
    [kind |-> "search", doc |-> "", outcome |-> outcome, requester |-> requester,
     raw |-> raw, out |-> SearchOut(raw)]

Init ==
    /\ backend \in {"faiss", "milvus"}
    /\ embeddings = <<>>
    /\ metas = <<>>
    /\ index = <<>>
    /\ col = <<>>
    /\ mcall = [c \in Clients |-> IdleCall]
    /\ last = NoOp
    /\ lastDone = [d \in AllDocs |-> <<>>]
    /\ splitIn = NoInput
    /\ splitOut = NotRun
    /\ encIn = NoEncIn
    /\ encOut = NoEncOut
    /\ ing = IdleIngest
    /\ disk = NoFiles
    /\ scoreIn = NoHits
    /\ scoreOut = NotScored

\* FaissVectorStore._persist, lines 148-164: what the directory holds afterwards
_persist(emb, ms) ==
    IF emb = <<>> \/ ms = <<>> THEN NoFiles ELSE [embeddings |-> emb, metas |-> ms]

\* FaissVectorStore._load, lines 133-146: the state of a store constructed on the directory
_load(files) ==
    IF files.embeddings = <<>>
    THEN [embeddings |-> <<>>, metas |-> files.metas, index |-> <<>>]
    ELSE [embeddings |-> _rebuild_index(files.embeddings).embeddings, metas |-> files.metas,
          index |-> _rebuild_index(files.embeddings).index]

\* FaissVectorStore.upsert_document, lines 38-81, on a store holding (emb, ms, idx):
\* the outcome, the state it leaves, and whether _persist was reached
FaissUpsertResult(emb, ms, idx, doc_id, user_id, scope, gen) ==
    LET outcome == FaissUpsertOutcome(gen)
        removed == _remove_doc_from_memory(emb, ms, doc_id)
        new_vecs == [i \in DOMAIN gen.embeddings |-> ToFloat(gen.embeddings[i])]
        rebuilt == _rebuild_index(removed.embeddings \o new_vecs)
    IN IF outcome = "LengthMismatch"
       THEN [outcome |-> outcome, embeddings |-> emb, metas |-> ms, index |-> idx,
             persisted |-> FALSE]
       ELSE IF outcome # "ok"
       THEN [outcome |-> outcome, embeddings |-> removed.embeddings, metas |-> removed.metas,
             index |-> idx, persisted |-> FALSE]
       ELSE [outcome |-> outcome, embeddings |-> rebuilt.embeddings,
             metas |-> removed.metas \o NewMetas(doc_id, user_id, scope, gen.chunks),
             index |-> rebuilt.index, persisted |-> TRUE]

\* the effect of FaissVectorStore.upsert_document on the store and on the directory
FaissApplyUpsert(doc_id, res, chunks) ==
    /\ embeddings' = res.embeddings
    /\ metas' = res.metas
    /\ index' = res.index
    /\ disk' = IF res.persisted THEN _persist(res.embeddings, res.metas) ELSE disk
    /\ last' = OpRecord("upsert", doc_id, res.outcome)
    /\ lastDone' = IF res.outcome = "ok" THEN [lastDone EXCEPT ![doc_id] = chunks] ELSE lastDone

\* FaissVectorStore.upsert_document, lines 38-81
FaissUpsert(doc_id, user_id, scope, gen) ==
    /\ backend = "faiss"
    /\ FaissApplyUpsert(doc_id, FaissUpsertResult(embeddings, metas, index, doc_id, user_id, scope, gen),
                        gen.chunks)
    /\ UNCHANGED <<backend, col, mcall, splitIn, splitOut, encIn, encOut, ing, scoreVars>>

\* FaissVectorStore.delete_document, lines 83-86, on a store holding (emb, ms)
FaissDeleteResult(emb, ms, doc_id) ==
    [embeddings |-> _rebuild_index(_remove_doc_from_memory(emb, ms, doc_id).embeddings).embeddings,
     metas |-> _remove_doc_from_memory(emb, ms, doc_id).metas,
     index |-> _rebuild_index(_remove_doc_from_memory(emb, ms, doc_id).embeddings).index]

\* FaissVectorStore.delete_document, lines 83-86
FaissDelete(doc_id) ==
    LET res == FaissDeleteResult(embeddings, metas, doc_id)
    IN /\ backend = "faiss"
       /\ embeddings' = res.embeddings
       /\ metas' = res.metas
       /\ index' = res.index
       /\ disk' = _persist(res.embeddings, res.metas)
       /\ last' = OpRecord("delete", doc_id, "ok")
       /\ lastDone' = [lastDone EXCEPT ![doc_id] = <<>>]
       /\ UNCHANGED <<backend, col, mcall, splitIn, splitOut, encIn, encOut, ing, scoreVars>>

\* FaissVectorStore.__init__, lines 23-36: the process restarts and a new store is
\* constructed on the same directory
FaissRestart ==
    /\ backend = "faiss"
    /\ embeddings' = _load(disk).embeddings
    /\ metas' = _load(disk).metas
    /\ index' = _load(disk).index
    /\ last' = OpRecord("restart", "", "ok")
    /\ UNCHANGED <<backend, col, mcall, lastDone, splitIn, splitOut, encIn, encOut, ing, disk,
                   scoreVars>>

\* RagService.semantic_search on the Faiss store (FaissVectorStore.search, lines 88-129)
FaissSemanticSearch(requester, q, top_k) ==
    LET k == EffectiveTopK(top_k)
        searched == q # <<>> /\ embeddings # <<>>
        idx == IF index = <<>> THEN _rebuild_index(embeddings).index ELSE index
    IN /\ backend = "faiss"
       /\ index' = IF searched THEN idx ELSE index
       /\ embeddings' = IF searched /\ index = <<>> THEN _rebuild_index(embeddings).embeddings
                        ELSE embeddings
       /\ last' = IF ~searched THEN SearchRecord(requester, "empty", <<>>)
                  ELSE IF Len(q) # Dim THEN SearchRecord(requester, "swallowed", <<>>)
                  ELSE SearchRecord(requester, "ok", FaissSearchResults(embeddings, metas, idx, q, k))
       /\ UNCHANGED <<backend, metas, col, mcall, lastDone, splitIn, splitOut, encIn, encOut, ing,
                      disk, scoreVars>>

\* MilvusVectorStore.upsert_document, lines 77-80: the effect of the length check and
\* of the delete_document call, which makes no remote call for the empty doc_id
MilvusApplyUpsertDelete(c, doc_id, user_id, scope, gen) ==
    /\ mcall[c].pc = "idle"
    /\ IF Len(gen.chunks) # Len(gen.embeddings)
       THEN /\ last' = OpRecord("upsert", doc_id, "LengthMismatch")
            /\ UNCHANGED <<col, mcall>>
       ELSE \E ok \in BOOLEAN :
            IF ok \/ doc_id = ""
            THEN /\ col' = IF doc_id = "" THEN col ELSE MilvusDeleteRows(col, doc_id)
                 /\ mcall' = [mcall EXCEPT ![c] = [pc |-> "deleted", doc |-> doc_id, user_id |-> user_id,
                                                    scope |-> scope, gen |-> gen]]
                 /\ UNCHANGED last
            ELSE /\ last' = OpRecord("upsert", doc_id, "DeleteFailed")
                 /\ UNCHANGED <<col, mcall>>
    /\ UNCHANGED lastDone

\* MilvusVectorStore.upsert_document, lines 77-80: the length check and the delete call
MilvusUpsertDelete(c, doc_id, user_id, scope, gen) ==
    /\ backend = "milvus"
    /\ MilvusApplyUpsertDelete(c, doc_id, user_id, scope, gen)
    /\ UNCHANGED <<backend, embeddings, metas, index, splitIn, splitOut, encIn, encOut, ing, disk,
                   scoreVars>>

\* MilvusVectorStore.upsert_document, line 105: the insert call
MilvusUpsertInsert(c) ==
    LET call == mcall[c]
    IN /\ backend = "milvus"
       /\ call.pc = "deleted"
       /\ \E ok \in BOOLEAN :
            IF ok /\ MilvusInsertAccepted(call.gen)
            THEN /\ col' = col \o MilvusRows(call.doc, call.user_id, call.scope, call.gen)
                 /\ mcall' = [mcall EXCEPT ![c].pc = "inserted"]
                 /\ lastDone' = [lastDone EXCEPT ![call.doc] = call.gen.chunks]
                 /\ UNCHANGED last
            ELSE /\ last' = OpRecord("upsert", call.doc, "InsertFailed")
                 /\ mcall' = [mcall EXCEPT ![c] = IdleCall]
                 /\ UNCHANGED <<col, lastDone>>
       /\ UNCHANGED <<backend, embeddings, metas, index, splitIn, splitOut, encIn, encOut, ing,
                      disk, scoreVars>>

\* MilvusVectorStore.upsert_document, line 106: the flush call and the return
MilvusUpsertFlush(c) ==
    LET call == mcall[c]
    IN /\ backend = "milvus"
       /\ call.pc = "inserted"
       /\ \E ok \in BOOLEAN :
            last' = OpRecord("upsert", call.doc, IF ok THEN "ok" ELSE "FlushFailed")
       /\ mcall' = [mcall EXCEPT ![c] = IdleCall]
       /\ UNCHANGED <<backend, embeddings, metas, index, col, lastDone, splitIn, splitOut, encIn,
                      encOut, ing, disk, scoreVars>>

\* MilvusVectorStore.delete_document, lines 108-112
MilvusDelete(c, doc_id) ==
    /\ backend = "milvus"
    /\ mcall[c].pc = "idle"
    /\ IF doc_id = ""
       THEN /\ last' = OpRecord("delete", doc_id, "ok")
            /\ UNCHANGED <<col, lastDone>>
       ELSE \E ok \in BOOLEAN :
            /\ col' = IF ok THEN MilvusDeleteRows(col, doc_id) ELSE col
            /\ last' = OpRecord("delete", doc_id, IF ok THEN "ok" ELSE "DeleteFailed")
            /\ lastDone' = IF ok THEN [lastDone EXCEPT ![doc_id] = <<>>] ELSE lastDone
    /\ UNCHANGED <<backend, embeddings, metas, index, mcall, splitIn, splitOut, encIn, encOut, ing,
                   disk, scoreVars>>

\* RagService.semantic_search on the Milvus store (MilvusVectorStore.search, lines 114-177)
MilvusSemanticSearch(c, requester, q, top_k) ==
    LET k == EffectiveTopK(top_k)
        searched == q # <<>> /\ col # <<>>
    IN /\ backend = "milvus"
       /\ mcall[c].pc = "idle"
       /\ \E ok \in BOOLEAN :
            last' = IF ~searched THEN SearchRecord(requester, "empty", <<>>)
                    ELSE IF ~ok \/ Len(q) # Dim THEN SearchRecord(requester, "swallowed", <<>>)
                    ELSE SearchRecord(requester, "ok", MilvusSearchResults(col, q, k))
       /\ UNCHANGED <<backend, embeddings, metas, index, col, mcall, lastDone, splitIn, splitOut,
                      encIn, encOut, ing, disk, scoreVars>>

Next ==
    \/ \E d \in Docs, u \in Users, s \in Scopes, g \in Gens : FaissUpsert(d, u, s, g)
    \/ \E d \in Docs : FaissDelete(d)
    \/ FaissRestart
    \/ \E r \in Users \cup {NoUser}, q \in QueryVecs \cup {<<>>}, k \in TopKs : FaissSemanticSearch(r, q, k)
    \/ \E c \in Clients, d \in MilvusDocs, o \in MilvusOwners, g \in MilvusGens :
            MilvusUpsertDelete(c, d, o[1], o[2], g)
    \/ \E c \in Clients : MilvusUpsertInsert(c)
    \/ \E c \in Clients : MilvusUpsertFlush(c)
    \/ \E c \in Clients, d \in MilvusDocs \cup {""} : MilvusDelete(c, d)
    \/ \E c \in Clients, r \in Users \cup {NoUser}, q \in QueryVecs \cup {<<>>}, k \in TopKs :
            MilvusSemanticSearch(c, r, q, k)

Spec == Init /\ [][Next]_vars

(***************************************************************************)
(* Runs of the splitter on bounded inputs                                  *)
(***************************************************************************)
MaxLines == 4

MaxUnits == 3

\* the lines a text is made of: a heading, a blank line, a short line, a line of
\* two sentences and a line without any punctuation
LineVocab ==
    { <<"#", " ", "h">>,
      <<>>,
      Rep("a", 7),
      Rep("b", 5) \o <<"!">> \o Rep("c", 5) \o <<"!">>,
      Rep("d", 12) }

UnitVocab ==
    { Rep("a", 7),
      Rep("b", 5) \o <<"!">> \o Rep("c", 5) \o <<"!">>,
      Rep("d", 12),
      Rep("e", 4) }

SplitParams ==
    { [target_tokens |-> 1, max_tokens |-> 2, sentence_overlap |-> 1],
      [target_tokens |-> 2, max_tokens |-> 2, sentence_overlap |-> 1],
      [target_tokens |-> 2, max_tokens |-> 3, sentence_overlap |-> 0],
      [target_tokens |-> 6, max_tokens |-> 8, sentence_overlap |-> 1] }

SeqsUpTo(S, n) == UNION {[1..k -> S] : k \in 1..n}

SplitInputs ==
    {[op |-> "split_text", text |-> Join(ls, <<NL>>), units |-> <<>>, params |-> ps] :
        ls \in SeqsUpTo(LineVocab, MaxLines), ps \in SplitParams}
    \cup
    {[op |-> "pack", text |-> <<>>, units |-> us, params |-> ps] :
        us \in SeqsUpTo(UnitVocab, MaxUnits), ps \in SplitParams}

InitSplit ==
    /\ backend = "faiss"
    /\ embeddings = <<>>
    /\ metas = <<>>
    /\ index = <<>>
    /\ col = <<>>
    /\ mcall = [c \in Clients |-> IdleCall]
    /\ last = NoOp
    /\ lastDone = [d \in AllDocs |-> <<>>]
    /\ splitIn \in SplitInputs
    /\ splitOut = NotRun
    /\ encIn = NoEncIn
    /\ encOut = NoEncOut
    /\ ing = IdleIngest
    /\ disk = NoFiles
    /\ scoreIn = NoHits
    /\ scoreOut = NotScored

\* a call of split_text
RunSplitText ==
    LET res == split_text(splitIn.text, splitIn.params.target_tokens, splitIn.params.max_tokens,
                          splitIn.params.sentence_overlap)
    IN /\ splitIn.op = "split_text"
       /\ ~splitOut.done
       /\ splitOut' = [done |-> TRUE, err |-> res.err, chunks |-> res.chunks, closes |-> <<>>]
       /\ UNCHANGED <<backend, embeddings, metas, index, col, mcall, last, lastDone, splitIn,
                    encIn, encOut, ing, disk, scoreVars>>

\* a call of _pack_units_to_chunks
RunPackUnits ==
    LET res == _pack_units_to_chunks(splitIn.units, splitIn.params.target_tokens,
                                     splitIn.params.max_tokens, splitIn.params.sentence_overlap, 1)
    IN /\ splitIn.op = "pack"
       /\ ~splitOut.done
       /\ splitOut' = [done |-> TRUE, err |-> res.err, chunks |-> res.chunks, closes |-> res.closes]
       /\ UNCHANGED <<backend, embeddings, metas, index, col, mcall, last, lastDone, splitIn,
                    encIn, encOut, ing, disk, scoreVars>>

NextSplit == RunSplitText \/ RunPackUnits

SpecSplit == InitSplit /\ [][NextSplit]_vars

(***************************************************************************)
(* What a reader of the store can see                                      *)
(***************************************************************************)
\* the fragments of doc_id held by the active backend
StoredFrags(doc_id) ==
    IF backend = "faiss" THEN FaissDocFrags(metas, doc_id) ELSE MilvusDocFrags(col, doc_id)

\* a step of an upsert_document call for doc_id that has not failed: the whole call
\* on the Faiss store, the delete call or the insert call on the Milvus collection
UpsertStepOn(doc_id) ==
    \/ backend = "faiss" /\ last' = OpRecord("upsert", doc_id, "ok")
    \/ /\ backend = "milvus"
       /\ \E c \in Clients : /\ mcall'[c].doc = doc_id
                             /\ mcall'[c].pc \in {"deleted", "inserted"}
                             /\ mcall'[c].pc # mcall[c].pc

\* the step of an upsert_document call for doc_id that puts its fragments in the index
MutationStepOn(doc_id) ==
    \/ backend = "faiss" /\ last' = OpRecord("upsert", doc_id, "ok")
    \/ /\ backend = "milvus"
       /\ \E c \in Clients : /\ mcall[c].doc = doc_id
                             /\ mcall[c].pc = "deleted"
                             /\ mcall'[c].pc = "inserted"

(***************************************************************************)
(* Claims on the stores                                                    *)
(***************************************************************************)
\* C1: a search never returns a fragment of a private document to a requester
\* who is not its owner (another user, or no user at all).
C1_VisibilityFilter ==
    last.kind = "search" =>
        \A p \in DOMAIN last.raw :
            last.raw[p].scope = "private" => last.raw[p].user_id = last.requester

\* C2: FaissVectorStore.upsert_document for an existing doc_id that fails on the
\* dimension of the vectors leaves matrix, metadata and index as they were.
C2_DimMismatchLeavesStore ==
    [][(/\ backend = "faiss"
        /\ last'.kind = "upsert"
        /\ last'.outcome = "DimMismatch"
        /\ FaissDocFrags(metas, last'.doc) # <<>>)
       => (embeddings' = embeddings /\ metas' = metas /\ index' = index)]_vars

\* C3: when the insert of a MilvusVectorStore.upsert_document call fails, after its
\* delete step, and no other call is running, the collection still holds the
\* generation of fragments the document had: the document is not left without
\* fragments.
C3_FailedUpsertKeepsPrevious ==
    [][\A c \in Clients :
          (/\ backend = "milvus"
           /\ mcall[c].pc = "deleted"
           /\ mcall'[c].pc = "idle"
           /\ last' = OpRecord("upsert", mcall[c].doc, "InsertFailed")
           /\ \A o \in Clients \ {c} : mcall[o].pc = "idle"
           /\ lastDone[mcall[c].doc] # <<>>)
          => (/\ MilvusDocFrags(col', mcall[c].doc) # <<>>
              /\ Range(lastDone[mcall[c].doc]) \subseteq Range(MilvusDocFrags(col', mcall[c].doc)))]_vars

\* C4: while upsert_document replaces the fragments of a document that has some, a
\* reader never finds the document without fragments and never with anything but
\* the fragments of one call: after each step of the call the fragments stored
\* for the document are a whole generation.
C4_ReplaceAtomic ==
    [][\A d \in Docs :
            (StoredFrags(d) # <<>> /\ UpsertStepOn(d))
            => (/\ StoredFrags(d)' # <<>>
                /\ \E g \in Gens : StoredFrags(d)' = g.chunks)]_vars

\* C9: when an upsert_document call puts its fragments in the index, the index holds
\* for that doc_id the fragments of this call, the last to mutate the index, and
\* of no other call, whatever calls for the same doc_id run at the same time.
C9_LastWriteWins ==
    [][\A d \in Docs : MutationStepOn(d) => StoredFrags(d)' = lastDone'[d]]_vars

IsPrefix(p, s) == Len(p) <= Len(s) /\ SubSeq(s, 1, Len(p)) = p

IsSubstring(p, s) == \E i \in 0..(Len(s) - Len(p)) : SubSeq(s, i + 1, i + Len(p)) = p

\* the text without its white space
Squeeze(s) == SelectSeq(s, LAMBDA ch : ch \notin WS)

\* the lines of a text that are not blank, stripped
TextLines(s) == StripNonEmpty(SplitOn(s, NL))

\* a unit over max_tokens that sentence splitting returns unchanged
Indivisible(u, max_tokens) == _count_tokens(u) > max_tokens /\ _split_sentences(u) = <<u>>

\* C5: a call of the splitter ends normally on every input, and
\* _pack_units_to_chunks emits each indivisible unit over max_tokens whole, as a
\* fragment of its own.
C5_IndivisibleUnitEmitted ==
    splitOut.done =>
        /\ ~splitOut.err
        /\ splitIn.op = "pack" =>
              \A i \in DOMAIN splitIn.units :
                  Indivisible(splitIn.units[i], splitIn.params.max_tokens)
                  => splitIn.units[i] \in Range(splitOut.chunks)

\* C6: with sentence_overlap > 0, the fragment that follows a fragment closed on
\* overflow of target_tokens begins with the last sentence_overlap lines of the
\* closed fragment, followed by the unit that closed it.
C6_OverlapCarried ==
    (splitOut.done /\ splitIn.op = "pack" /\ ~splitOut.err /\ splitIn.params.sentence_overlap > 0)
    => \A i \in DOMAIN splitOut.closes :
          LET e == splitOut.closes[i]
              prev == SplitOn(splitOut.chunks[e.prev], NL)
              tail == SelectSeq(LastN(prev, splitIn.params.sentence_overlap), LAMBDA x : x # <<>>)
          IN /\ e.prev + 1 \in DOMAIN splitOut.chunks
             /\ IsPrefix(Join(tail \o <<e.unit>>, <<NL>>), splitOut.chunks[e.prev + 1])

\* C7: no heading line and no paragraph line of the input is lost by split_text:
\* the text of each line of the input is found in the text of the fragments, put
\* one after the other.
C7_NothingLost ==
    (splitOut.done /\ splitIn.op = "split_text" /\ ~splitOut.err)
    => \A l \in Range(TextLines(strip(splitIn.text))) :
          IsSubstring(Squeeze(l), Squeeze(Join(splitOut.chunks, <<>>)))

\* C8: a fragment returned by split_text has at most max_tokens tokens, the first
\* fragment of a section with its heading included, unless the fragment is one
\* indivisible unit over max_tokens.
C8_FragmentWithinMax ==
    (splitOut.done /\ splitIn.op = "split_text" /\ ~splitOut.err)
    => \A i \in DOMAIN splitOut.chunks :
          \/ _count_tokens(splitOut.chunks[i]) <= splitIn.params.max_tokens
          \/ Indivisible(splitOut.chunks[i], splitIn.params.max_tokens)

(***************************************************************************)
(* Claims on search errors, idempotence, persistence and scores            *)
(***************************************************************************)
\* C12: when the store raises during a search, RagService.semantic_search fails
\* with an error for its caller: a search in which the store raised is never
\* answered with a result list.
C12_BackendErrorSurfaced ==
    last.kind = "search" => last.outcome # "swallowed"

\* the (doc_id, chunk_index) pairs of a result list, in order
ResultKeys(res) == [p \in DOMAIN res |-> <<res[p].doc_id, res[p].chunk_index>>]

\* a query vector that gives every stored vector of Vecs a different score
ProbeQuery == <<3, 4>>

\* the Faiss store after calling upsert_document twice with the same arguments
\* equals the store after calling it once, and answers every query alike
UpsertTwiceSame(doc_id, user_id, scope, gen) ==
    LET once == FaissUpsertResult(embeddings, metas, index, doc_id, user_id, scope, gen)
        twice == FaissUpsertResult(once.embeddings, once.metas, once.index, doc_id, user_id, scope, gen)
    IN /\ twice.outcome = once.outcome
       /\ twice.embeddings = once.embeddings
       /\ twice.metas = once.metas
       /\ twice.index = once.index
       /\ \A d \in Docs : Len(FaissDocFrags(twice.metas, d)) = Len(FaissDocFrags(once.metas, d))
       /\ twice.embeddings # <<>> =>
            FaissSearchResults(twice.embeddings, twice.metas, twice.index, ProbeQuery, DefaultTopK)
            = FaissSearchResults(once.embeddings, once.metas, once.index, ProbeQuery, DefaultTopK)

C18_ReloadEqualsMemory ==
    backend = "faiss" => (_load(disk).metas = metas /\ _load(disk).embeddings = embeddings)

\* C19: when the Milvus collection holds the fragments of one completed
\* upsert_document call, MilvusVectorStore.search returns, for every query vector and top_k, the
\* same sequence of (doc_id, chunk_index) as FaissVectorStore.search on a Faiss
\* store that received the same call.
C19_BackendsRankAlike ==
    \A d \in MilvusDocs, o \in MilvusOwners, g \in {GenA, GenB} :
        (/\ backend = "milvus"
         /\ \A c \in Clients : mcall[c].pc = "idle"
         /\ last = OpRecord("upsert", d, "ok")
         /\ col = MilvusRows(d, o[1], o[2], g))
        => \A q \in Vecs, k \in {1, 2} :
              LET f == FaissUpsertResult(<<>>, <<>>, <<>>, d, o[1], o[2], g)
              IN ResultKeys(MilvusSearchResults(col, q, k))
                 = ResultKeys(FaissSearchResults(f.embeddings, f.metas, f.index, q, k))

\* the score, out of 100, of the best hit for q on the Faiss store
TopScore(q) == SearchOut(FaissSearchResults(embeddings, metas, index, q, 1))[1].score

\* the positions of the Faiss store whose vector is the vector of q
SelfRows(q) == {i \in DOMAIN index : index[i] = normalize_L2(ToFloat(q))}

\* C20: on the Faiss store, a query vector that is the vector of a stored
\* fragment gets that fragment as its best hit, with a score of 100 or 99
\* whatever the norm of the vector, and no hit scores higher.
C20_SelfSimilarityIs100 ==
    \A q \in Vecs :
        (backend = "faiss" /\ Len(index) = Len(metas) /\ SelfRows(q) # {})
        => LET raw == FaissSearchResults(embeddings, metas, index, q, DefaultTopK)
           IN /\ raw # <<>>
              /\ \E i \in SelfRows(q) : /\ raw[1].doc_id = metas[i].doc_id
                                        /\ raw[1].chunk_index = metas[i].chunk_index
              /\ TopScore(q) \in {99, 100}
              /\ \A p \in DOMAIN raw : Score100(raw[p].score) <= TopScore(q)

(***************************************************************************)
(* Runs of _retry_async and of Embeddings.encode on bounded inputs         *)
(***************************************************************************)
MaxTries == 5

MaxTexts == 3

\* the texts handed to encode: the empty text, a blank, and two words
TextVocab == { <<>>, <<" ">>, Rep("x", 2), Rep("y", 3) }

\* the configured batch_size: none, 1 and 2
BatchConfigs == {0, 1, 2}

\* per batch, the number of calls that fail before one succeeds
FailCounts == {0, 1, Tries}

\* (base_delay, max_delay): the defaults, and a pair whose cap is reached at once
DelayParams == { <<BaseDelay, MaxDelay>>, <<1, 2>> }

\* what the calls of fn do: the a-th call returns a value or raises, both tagged with a
RetryOutcomes(oks) ==
    [a \in DOMAIN oks |->
        IF oks[a] THEN [ok |-> TRUE, value |-> << <<a, 0>> >>, exc |-> NoExc]
        ELSE [ok |-> FALSE, value |-> <<>>, exc |-> [batch |-> 0, attempt |-> a]]]

EmbedInputs ==
    {[op |-> "retry", outcomes |-> RetryOutcomes(oks), tries |-> t, base_delay |-> dp[1],
      max_delay |-> dp[2], texts |-> <<>>, batch_size |-> 0, oracle |-> <<>>] :
        oks \in [1..MaxTries -> BOOLEAN], t \in 1..MaxTries, dp \in DelayParams}
    \cup
    {[op |-> "encode", outcomes |-> <<>>, tries |-> Tries, base_delay |-> BaseDelay,
      max_delay |-> MaxDelay, texts |-> ts, batch_size |-> bs, oracle |-> orc] :
        ts \in SeqsUpTo(TextVocab, MaxTexts) \cup {<<>>}, bs \in BatchConfigs,
        orc \in [1..MaxTexts -> FailCounts]}

InitEmbed ==
    /\ backend = "faiss"
    /\ embeddings = <<>>
    /\ metas = <<>>
    /\ index = <<>>
    /\ col = <<>>
    /\ mcall = [c \in Clients |-> IdleCall]
    /\ last = NoOp
    /\ lastDone = [d \in AllDocs |-> <<>>]
    /\ splitIn = NoInput
    /\ splitOut = NotRun
    /\ encIn \in EmbedInputs
    /\ encOut = NoEncOut
    /\ ing = IdleIngest
    /\ disk = NoFiles
    /\ scoreIn = NoHits
    /\ scoreOut = NotScored

\* a call of _retry_async
RunRetry ==
    LET res == _retry_async(encIn.outcomes, encIn.tries, encIn.base_delay, encIn.max_delay)
    IN /\ encIn.op = "retry"
       /\ ~encOut.done
       /\ encOut' = [done |-> TRUE, raised |-> res.raised, value |-> res.value, exc |-> res.exc,
                     attempts |-> res.attempts, sleeps |-> res.sleeps, calls |-> <<>>]
       /\ UNCHANGED <<storeVars, splitVars, encIn, ing, disk, scoreVars>>

\* a call of Embeddings.encode on an Embeddings object configured with encIn.batch_size
RunEncode ==
    LET res == encode(encIn.texts, ConfiguredBatchSize(encIn.batch_size), encIn.oracle)
    IN /\ encIn.op = "encode"
       /\ ~encOut.done
       /\ encOut' = [done |-> TRUE, raised |-> res.raised, value |-> res.vectors, exc |-> res.exc,
                     attempts |-> Len(res.calls), sleeps |-> <<>>, calls |-> res.calls]
       /\ UNCHANGED <<storeVars, splitVars, encIn, ing, disk, scoreVars>>

NextEmbed == RunRetry \/ RunEncode

SpecEmbed == InitEmbed /\ [][NextEmbed]_vars

(***************************************************************************)
(* Claims on the embedding calls                                           *)
(***************************************************************************)
\* C13: _retry_async calls fn at most `tries` times; it returns the value of the
\* first call that succeeds and calls no more; it raises only when all `tries`
\* calls have failed, and then the exception of the last call; it sleeps
\* min(max_delay, base_delay * 2^(n-1)) after the n-th failed call when another
\* call follows, and does not sleep after the last call.
C13_RetrySchedule ==
    (encOut.done /\ encIn.op = "retry")
    => /\ encOut.attempts \in 1..encIn.tries
       /\ \A a \in 1..(encOut.attempts - 1) : ~encIn.outcomes[a].ok
       /\ ~encOut.raised => /\ encIn.outcomes[encOut.attempts].ok
                            /\ encOut.value = encIn.outcomes[encOut.attempts].value
       /\ encOut.raised => /\ encOut.attempts = encIn.tries
                           /\ ~encIn.outcomes[encIn.tries].ok
                           /\ encOut.exc = encIn.outcomes[encIn.tries].exc
       /\ Len(encOut.sleeps) = encOut.attempts - 1
       /\ \A n \in DOMAIN encOut.sleeps :
            encOut.sleeps[n] = Min2(encIn.max_delay, encIn.base_delay * (2 ^ (n - 1)))

\* C13 witness: with the default delays every one of MaxTries calls fails, and the
\* last sleep is the capped one
C13_Witness ==
    /\ encOut.done
    /\ encIn.op = "retry"
    /\ encIn.tries = MaxTries
    /\ encIn.base_delay = BaseDelay
    /\ encOut.raised
    /\ encOut.exc = [batch |-> 0, attempt |-> MaxTries]
    /\ encOut.sleeps[MaxTries - 1] = MaxDelay
    /\ encOut.sleeps[1] = BaseDelay

\* the successful remote calls of the encode run
OkCalls == SelectSeq(encOut.calls, LAMBDA c : c.ok)

RECURSIVE Flatten(_)
\* the batches of a sequence of calls, one after the other
Flatten(calls) == IF calls = <<>> THEN <<>> ELSE Head(calls).texts \o Flatten(Tail(calls))

\* C14: when the texts given to encode are not all empty and no batch runs out of
\* attempts, encode makes exactly ceil(n/b) successful remote calls, the batches
\* of these calls are the input cut into consecutive slices of b texts, and the
\* vectors returned are the embeddings of the texts, one per text, in the order
\* of the input.
C14_BatchesFlattenInOrder ==
    (/\ encOut.done
     /\ encIn.op = "encode"
     /\ \E i \in DOMAIN encIn.texts : encIn.texts[i] # <<>>
     /\ ~encOut.raised)
    => LET n == Len(encIn.texts)
           b == Max2(1, ConfiguredBatchSize(encIn.batch_size))
       IN /\ Len(OkCalls) = (n + b - 1) \div b
          /\ \A c \in DOMAIN OkCalls :
                OkCalls[c].texts = SubSeq(encIn.texts, (c - 1) * b + 1, Min2(c * b, n))
          /\ Flatten(OkCalls) = encIn.texts
          /\ Len(encOut.value) = n
          /\ \A i \in 1..n : encOut.value[i] = ProviderEmbedding(encIn.texts[i])

\* C14 witness: three texts in batches of two, the second batch succeeding on a retry
C14_Witness ==
    /\ encOut.done
    /\ encIn.op = "encode"
    /\ ~encOut.raised
    /\ Len(encIn.texts) = MaxTexts
    /\ encIn.batch_size = 2
    /\ \A i \in DOMAIN encIn.texts : encIn.texts[i] # <<>>
    /\ encIn.texts[1] # encIn.texts[2]
    /\ Len(OkCalls) >= 2
    /\ Len(encOut.calls) > Len(OkCalls)

\* C15: encode of a non-empty list in which every text is empty or made of
\* whitespace only returns one placeholder vector per text and makes no remote
\* call.
C15_DegenerateNoRemoteCall ==
    (/\ encOut.done
     /\ encIn.op = "encode"
     /\ encIn.texts # <<>>
     /\ \A i \in DOMAIN encIn.texts : strip(encIn.texts[i]) = <<>>)
    => /\ encOut.calls = <<>>
       /\ ~encOut.raised
       /\ encOut.value = [i \in DOMAIN encIn.texts |-> Placeholder]

(***************************************************************************)
(* RagService._ingest_raw_text and delete_document in one process of the   *)
(* application.  The handlers of a process run on one event loop: a        *)
(* handler gives way to the others at its await only, and the calls of the *)
(* store are blocking.                                                     *)
(***************************************************************************)
\* the process whose handlers are modelled
Service == 1

\* rag_split of the configuration (400 / 800 / 2 by default, lines 83-85), scaled down
\* to the length of the model's texts
IngestSplitParams == [target_tokens |-> 1, max_tokens |-> 2, sentence_overlap |-> 1]

\* embedding.batch_size of the configuration
IngestBatchSize == 1

\* the contents ingested: a short line, two sentences, a line that cannot be cut
\* and a blank content
IngestContents ==
    { Rep("a", 7),
      Rep("b", 5) \o <<"!">> \o Rep("c", 5) \o <<"!">>,
      Rep("d", 12),
      <<" ">> }

\* per batch of the ingest, the number of calls that fail before one succeeds
IngestOracles == [1..2 -> {0, Tries}]

\* the _ingest_raw_text calls: (title given, content, oracle); with no title the
\* content does not matter
IngestCalls ==
    {<<TRUE, c, o>> : c \in IngestContents, o \in IngestOracles}
    \cup {<<FALSE, Rep("a", 7), [b \in 1..2 |-> 0]>>}

\* a document stored through the store under the empty doc_id
GenE == [chunks |-> << Rep("e", 4) >>, embeddings |-> << <<0, 2>> >>]

\* an ingest that goes on to the store whatever happened before
IngestNeverFails(i) == "ok"

\* _ingest_raw_text, lines 73-94: "ok" or the exception raised before the store is called
IngestOutcome(i) ==
    IF ~i.title_ok \/ i.text = <<>> THEN "ValueError"
    ELSE IF i.split.err THEN "RecursionError"
    ELSE IF i.split.chunks = <<>> THEN "ValueError"
    ELSE IF i.enc.raised THEN "ProviderError"
    ELSE IF i.enc.vectors = <<>> THEN "RuntimeError"
    ELSE "ok"

\* _ingest_raw_text, lines 73-92: the call up to the return of encode
IngestEmbedded(user_id, scope, title_ok, text, sp, oracle) ==
    [pc |-> "embedded", user_id |-> user_id, scope |-> scope, title_ok |-> title_ok, text |-> text,
     split |-> IF title_ok /\ text # <<>> THEN sp ELSE NotSplit,
     enc |-> IF title_ok /\ text # <<>> /\ ~sp.err /\ sp.chunks # <<>>
             THEN encode(sp.chunks, IngestBatchSize, oracle)
             ELSE NotEncoded]

\* _ingest_raw_text, lines 71-92: from the call to the await of encode
IngestBegin(user_id, scope, title_ok, content, oracle) ==
    /\ ing.pc = "idle"
    /\ mcall[Service].pc = "idle"
    /\ ing' = IngestEmbedded(user_id, scope, title_ok, strip(content),
                             split_text(strip(content), IngestSplitParams.target_tokens,
                                        IngestSplitParams.max_tokens,
                                        IngestSplitParams.sentence_overlap),
                             oracle)
    /\ UNCHANGED <<storeVars, splitVars, embedVars, disk, scoreVars>>

\* the doc_ids no document has
UnusedDocs ==
    {d \in Docs : FaissDocFrags(metas, d) = <<>> /\ MilvusDocFrags(col, d) = <<>>}

\* doc_id = str(uuid.uuid4()), line 102: an id no document has; which one does not matter
FreshDocs == IF "d1" \in UnusedDocs THEN {"d1"} ELSE UnusedDocs

\* _ingest_raw_text, lines 93-125: from the return of encode to the end of the call
IngestFinish ==
    /\ ing.pc = "embedded"
    /\ mcall[Service].pc = "idle"
    /\ ing' = [ing EXCEPT !.pc = "idle"]
    /\ IF IngestOutcome(ing) # "ok"
       THEN /\ last' = OpRecord("ingest", "", IngestOutcome(ing))
            /\ UNCHANGED <<backend, embeddings, metas, index, col, mcall, lastDone, disk>>
       ELSE \E d \in FreshDocs :
            LET gen == [chunks |-> ing.split.chunks, embeddings |-> ing.enc.vectors]
            IN IF backend = "faiss"
               THEN /\ FaissApplyUpsert(d, FaissUpsertResult(embeddings, metas, index, d, ing.user_id,
                                                             ing.scope, gen), gen.chunks)
                    /\ UNCHANGED <<backend, col, mcall>>
               ELSE /\ MilvusApplyUpsertDelete(Service, d, ing.user_id, ing.scope, gen)
                    /\ UNCHANGED <<backend, embeddings, metas, index, disk>>
    /\ UNCHANGED <<splitVars, embedVars, scoreVars>>

\* the rows the collection may hold under the empty doc_id, which no call removes
MaxEmptyDocRows == 1

\* the query of the searches made next to the ingests
ServiceQuery == <<1, 0>>

NextService ==
    \/ \E i \in IngestCalls : IngestBegin(1, "private", i[1], i[2], i[3])
    \/ IngestFinish
    \/ FaissUpsert("", 1, "private", GenE)
    \/ /\ Len(MilvusDocFrags(col, "")) < MaxEmptyDocRows
       /\ MilvusUpsertDelete(Service, "", 1, "private", GenE)
    \/ MilvusUpsertInsert(Service)
    \/ MilvusUpsertFlush(Service)
    \/ \E d \in AllDocs : FaissDelete(d)
    \/ \E d \in AllDocs : MilvusDelete(Service, d)
    \/ FaissSemanticSearch(NoUser, ServiceQuery, 0)
    \/ MilvusSemanticSearch(Service, NoUser, ServiceQuery, 0)

SpecService == Init /\ [][NextService]_vars

(***************************************************************************)
(* Claims on ingest and delete                                             *)
(***************************************************************************)
\* the ingest has failed in chunking or in embedding
IngestFailed(i) ==
    \/ ~i.title_ok
    \/ i.text = <<>>
    \/ i.split.err
    \/ i.split.chunks = <<>>
    \/ i.enc.raised

\* C11: when an _ingest_raw_text call ends after a failure in chunking or in
\* embedding (a provider error after the retries included), the store is not
\* called and matrix, metadata, index, collection and directory are what they
\* were, so no search sees a fragment of the ingest.
C11_FailedIngestLeavesIndex ==
    [][(ing.pc = "embedded" /\ ing'.pc = "idle" /\ IngestFailed(ing))
       => (/\ last'.kind = "ingest"
           /\ embeddings' = embeddings
           /\ metas' = metas
           /\ index' = index
           /\ col' = col
           /\ mcall' = mcall
           /\ disk' = disk)]_vars

\* C11 witness: an ingest of two fragments has ended on a provider error for the
\* second batch, after the first batch was embedded, while the store holds a document
C11_Witness ==
    /\ ing.pc = "idle"
    /\ last = OpRecord("ingest", "", "ProviderError")
    /\ Len(ing.split.chunks) = 2
    /\ \E c \in DOMAIN ing.enc.calls : ing.enc.calls[c].ok
    /\ \E d \in Docs : StoredFrags(d) # <<>>

\* a step of delete_document whose call of the backend has not failed, made after
\* an operation that has not failed either
DeleteDone ==
    /\ last.outcome = "ok"
    /\ last'.kind = "delete"
    /\ last'.outcome = "ok"
    /\ ing' = ing
    /\ mcall' = mcall

\* C16: a delete_document call, the backend being reachable, leaves no fragment
\* of its doc_id, whether the document was stored or not; a second call for the
\* same doc_id right after the first leaves the store as the first left it.
C16_DeleteIdempotent ==
    [][DeleteDone
       => (/\ \A d \in AllDocs : last'.doc = d => StoredFrags(d)' = <<>>
           /\ (last = last' => (embeddings' = embeddings /\ metas' = metas /\ col' = col)))]_vars

(***************************************************************************)
(* Claims on the results of a store search and on the stored rows          *)
(***************************************************************************)
\* the top_k values a store search is called with: none, one, two and more than
\* the stores of the model hold
StoreTopKs == {0, 1, 2, DefaultTopK}

\* a result list has at most top_k hits, in non-increasing order of raw score
AtMostTopKSorted(res, top_k) ==
    /\ Len(res) <= top_k
    /\ \A p \in DOMAIN res : \A r \in DOMAIN res : p < r => res[p].score >= res[r].score

\* C22: on a store whose structures agree, search(query_vector, top_k) returns at
\* most top_k hits, in non-increasing order of raw similarity, for every top_k
\* from 0 up to more than the number of stored fragments.
C22_AtMostTopKInOrder ==
    \A q \in Vecs, k \in StoreTopKs :
        /\ (backend = "faiss" /\ embeddings # <<>> /\ index = embeddings /\ Len(metas) = Len(index))
           => AtMostTopKSorted(FaissSearchResults(embeddings, metas, index, q, k), k)
        /\ (backend = "milvus" /\ col # <<>>)
           => AtMostTopKSorted(MilvusSearchResults(col, q, k), k)

\* the chunk_index values of the stored fragments of doc_id, in the order of the store
StoredChunkIndexes(doc_id) ==
    IF backend = "faiss"
    THEN SelectSeq2([i \in DOMAIN metas |-> metas[i].chunk_index],
                    {i \in DOMAIN metas : metas[i].doc_id = doc_id})
    ELSE SelectSeq2([i \in DOMAIN col |-> col[i].chunk_index],
                    {i \in DOMAIN col : col[i].doc_id = doc_id})

\* C24: in every reachable state the chunk_index values of the stored fragments
\* of each doc_id are 0..n-1, each once, n being the number of its fragments.
C24_ChunkIndexContiguous ==
    \A d \in AllDocs :
        LET ixs == StoredChunkIndexes(d)
        IN /\ Range(ixs) = 0..(Len(ixs) - 1)
           /\ \A a \in DOMAIN ixs : \A b \in DOMAIN ixs : ixs[a] = ixs[b] => a = b

\* C26: in FaissVectorStore, after every upsert_document or delete_document call,
\* ended normally or by an exception, there are as many metadata records as rows
\* of the matrix and as vectors in the index that search uses.
C26_MetasMatrixIndexAgree ==
    (backend = "faiss" /\ last.kind \in {"upsert", "delete"})
    => (Len(metas) = Len(embeddings) /\ Len(index) = Len(metas))

\* the vector supplied to upsert_document with the fragment of metadata record m
\* is v: some generation holds the text of m at the position of m with a vector
\* whose normalised form is v
SuppliedWith(m, v) ==
    \E g \in Gens :
        /\ Len(g.chunks) = Len(g.embeddings)
        /\ m.chunk_index + 1 \in DOMAIN g.chunks
        /\ g.chunks[m.chunk_index + 1] = m.content
        /\ Len(g.embeddings[m.chunk_index + 1]) = Dim
        /\ v = normalize_L2(ToFloat(g.embeddings[m.chunk_index + 1]))

\* C27: in FaissVectorStore row i of the matrix is the normalised vector that was
\* supplied, in the same upsert_document call and at the same position, with the
\* fragment text of metadata record i; so it is too for the index when the last
\* call has succeeded.
C27_RowsMatchMetas ==
    backend = "faiss"
    => /\ Len(embeddings) = Len(metas)
       /\ \A i \in DOMAIN metas : SuppliedWith(metas[i], embeddings[i])
       /\ (last.kind \in {"upsert", "delete"} /\ last.outcome = "ok") => index = embeddings

\* C27 witness: a document of two fragments comes first in the store, a document
\* upserted after it comes next, and their vectors differ
C27_Witness ==
    /\ backend = "faiss"
    /\ last = OpRecord("upsert", "d1", "ok")
    /\ Len(metas) = 3
    /\ metas[1].doc_id = "d2"
    /\ metas[2].doc_id = "d2"
    /\ metas[3].doc_id = "d1"
    /\ embeddings[1] # embeddings[2]
    /\ embeddings[2] # embeddings[3]
    /\ embeddings[1] # embeddings[3]

\* the metadata records of the documents other than doc_id, in the order of the store
OtherMetas(ms, doc_id) == SelectSeq2(ms, {i \in DOMAIN ms : ms[i].doc_id # doc_id})

\* the rows of the matrix that go with them
OtherRows(emb, ms, doc_id) ==
    IF Len(emb) # Len(ms) THEN <<>>
    ELSE SelectSeq2(emb, {i \in DOMAIN ms : ms[i].doc_id # doc_id})

\* C28: an upsert_document or delete_document call for a doc_id on FaissVectorStore
\* leaves the metadata records (text, chunk_index, owner, scope) and the vectors of
\* every other document as they were, in the same order.
C28_OtherDocsUntouched ==
    [][\A d \in Docs :
          (backend = "faiss" /\ last'.kind \in {"upsert", "delete"} /\ last'.doc = d)
          => /\ OtherMetas(metas, d)' = OtherMetas(metas, d)
             /\ OtherRows(embeddings, metas, d)' = OtherRows(embeddings, metas, d)]_vars

\* C28 witness: a document stored before another one has been deleted and the
\* other one is left
C28_Witness ==
    /\ backend = "faiss"
    /\ last = OpRecord("delete", "d1", "ok")
    /\ lastDone["d2"] = GenA.chunks
    /\ FaissDocFrags(metas, "d2") = GenA.chunks
    /\ disk.metas = metas


\* Negative top_k (rag_service.py line 171, vector_store_faiss.py line 103,
\* vector_store_milvus.py line 118)
NegativeTopK == -1

\* C23: a search issued with a negative top_k is rejected: it does not end as
\* an answered search, it returns no hits and it performs no index search
\* (the raw hit list of the store stays empty).
C23_NegativeTopKRejected ==
    [][\A r \in Users \cup {NoUser}, q \in QueryVecs :
          (\/ FaissSemanticSearch(r, q, NegativeTopK)
           \/ \E c \in Clients : MilvusSemanticSearch(c, r, q, NegativeTopK))
          => (last'.outcome # "ok" /\ last'.raw = <<>> /\ last'.out = <<>>)]_vars


\* C25: split_text on a non-empty input whose total token count is below
\* target_tokens returns exactly one fragment, whatever the structure of the
\* input, several heading lines included.
C25_ShortInputOneFragment ==
    (/\ splitOut.done /\ splitIn.op = "split_text" /\ ~splitOut.err
     /\ strip(splitIn.text) # <<>>
     /\ _count_tokens(strip(splitIn.text)) < splitIn.params.target_tokens)
    => Len(splitOut.chunks) = 1

\* the fragments that hold text of the unit u (the units of UnitVocab share
\* no character)
ChunksOf(chunks, u) == {k \in DOMAIN chunks : Range(u) \cap Range(chunks[k]) # {}}

\* C29: _pack_units_to_chunks preserves the order of its input: for units
\* i < j, the text of unit i appears in the output at or before a fragment
\* that holds the text of unit j, also when an oversized unit follows smaller
\* units that are still buffered.
C29_PackPreservesOrder ==
    (splitOut.done /\ splitIn.op = "pack" /\ ~splitOut.err)
    => \A i, j \in DOMAIN splitIn.units :
          (i < j /\ ChunksOf(splitOut.chunks, splitIn.units[j]) # {})
          => \E k \in ChunksOf(splitOut.chunks, splitIn.units[i]),
                m \in ChunksOf(splitOut.chunks, splitIn.units[j]) : k <= m


(***************************************************************************)
(* Runs of the score conversion of semantic_search on bounded hit lists    *)
(***************************************************************************)
MaxHits == 3

\* raw scores of the store, times Scale * Scale: -1.5, -0.04, 0, 0.05, 0.5, 1.0,
\* 1.01, 1.5, 2.5, 100.5 and 200
RawScores == {-150, -4, 0, 5, 50, 100, 101, 150, 250, 10050, 20000}

\* a VectorSearchResult with score None
UnscoredHit == [doc_id |-> "d1", chunk_index |-> 0, content |-> "B0"]

ScoredHit(x) == [doc_id |-> "d1", chunk_index |-> 0, content |-> "B0", score |-> x]

HitLists == SeqsUpTo({ScoredHit(x) : x \in RawScores} \cup {UnscoredHit}, MaxHits)

InitScore ==
    /\ backend = "faiss"
    /\ embeddings = <<>>
    /\ metas = <<>>
    /\ index = <<>>
    /\ col = <<>>
    /\ mcall = [c \in Clients |-> IdleCall]
    /\ last = NoOp
    /\ lastDone = [d \in AllDocs |-> <<>>]
    /\ splitIn = NoInput
    /\ splitOut = NotRun
    /\ encIn = NoEncIn
    /\ encOut = NoEncOut
    /\ ing = IdleIngest
    /\ disk = NoFiles
    /\ scoreIn \in HitLists
    /\ scoreOut = NotScored

\* the loop of semantic_search over the results of the store, lines 186-208
RunNormalize ==
    /\ ~scoreOut.done
    /\ scoreIn # NoHits
    /\ scoreOut' = [done |-> TRUE, hits |-> SearchOut(scoreIn)]
    /\ UNCHANGED <<storeVars, splitVars, embedVars, ing, disk, scoreIn>>

NextScore == RunNormalize

SpecScore == InitScore /\ [][NextScore]_vars

IsScored(r) == "score" \in DOMAIN r

\* C21: every hit returned by semantic_search carries a score that is an
\* integer between 0 and 100 inclusive, whatever the raw score of the store
\* (negative, between 0 and 1, above 1, above 100, or missing); the same for
\* the hits of the searches of the store model.
C21_ScoreWithin0To100 ==
    /\ scoreOut.done =>
          (/\ Len(scoreOut.hits) = Len(scoreIn)
           /\ \A p \in DOMAIN scoreOut.hits : scoreOut.hits[p].score \in 0..100)
    /\ \A p \in DOMAIN last.out : last.out[p].score \in 0..100

C21_Witness ==
    /\ scoreOut.done
    /\ \E p \in DOMAIN scoreIn : ~IsScored(scoreIn[p]) /\ scoreOut.hits[p].score = 0
    /\ \E p \in DOMAIN scoreIn : IsScored(scoreIn[p]) /\ scoreIn[p].score < 0
    /\ \E p \in DOMAIN scoreIn : IsScored(scoreIn[p]) /\ scoreIn[p].score > 100 * Scale * Scale

\* the hits are in the order of the store: every one has a score and the raw
\* scores are non-increasing
InStoreOrder(raw) ==
    /\ \A p \in DOMAIN raw : IsScored(raw[p])
    /\ \A p \in 1..(Len(raw) - 1) : raw[p].score >= raw[p + 1].score

\* C30: the conversion of the raw similarity to the 0-100 score preserves the
\* ranking: for hits returned by the store in non-increasing order of raw
\* score, the normalized scores of the output list are non-increasing as
\* well, also for raw scores on both sides of 1.0.
C30_RankingPreserved ==
    (scoreOut.done /\ InStoreOrder(scoreIn))
    => \A p \in 1..(Len(scoreOut.hits) - 1) :
          scoreOut.hits[p].score >= scoreOut.hits[p + 1].score

====
